---- MODULE Spec2Model ----
(***************************************************************************)
(* Model of app.py, the Streamlit dashboard of the air quality measured in *)
(* the station Chatelet (RER A).  One run of the script is one render      *)
(* cycle; the model follows the script section by section.                 *)
(*                                                                         *)
(* Representation.  A text cell is a TLA+ string.  A float is held as an   *)
(* integer number of tenths (45,5 is 455): the raw values drawn below carry*)
(* at most one decimal digit.  A calendar date is its proleptic Gregorian  *)
(* ordinal (datetime.date.toordinal).  Every cell of a frame is a tagged   *)
(* record so that cells of different types can be compared.                *)
(***************************************************************************)
EXTENDS Integers, Sequences, FiniteSets, TLC

(***************************************************************************)
(* Bound of the model: the number of data rows of the source file.         *)
(***************************************************************************)
MaxRows == 2

(***************************************************************************)
(* Cells                                                                   *)
(***************************************************************************)
Str(s) == [t |-> "str", s |-> s, v |-> 0, h |-> 0]

NaN == [t |-> "nan", s |-> "", v |-> 0, h |-> 0]

Float(n) == [t |-> "float", s |-> "", v |-> n, h |-> 0]

NaT == [t |-> "nat", s |-> "", v |-> 0, h |-> 0]

\* a parsed date-time: v is the ordinal of its date, h its hour
Timestamp(ord, hour) == [t |-> "ts", s |-> "", v |-> ord, h |-> hour]

isna(c) == c.t \in {"nan", "nat"}

(***************************************************************************)
(* Strings                                                                 *)
(***************************************************************************)
Digits == <<"0", "1", "2", "3", "4", "5", "6", "7", "8", "9">>

IsDigit(c) == \E i \in 1..10 : Digits[i] = c

DigitVal(c) == (CHOOSE i \in 1..10 : Digits[i] = c) - 1

AllDigits(s) == \A i \in 1..Len(s) : IsDigit(SubSeq(s, i, i))

RECURSIVE ToInt(_)
ToInt(s) ==
    IF Len(s) = 0 THEN 0
    ELSE 10 * ToInt(SubSeq(s, 1, Len(s) - 1)) + DigitVal(SubSeq(s, Len(s), Len(s)))

\* str.replace(old, new) for a one-character pattern
RECURSIVE str_replace(_, _, _)
str_replace(s, old, new) ==
    IF Len(s) = 0 THEN ""
    ELSE (IF Head(s) = old THEN new ELSE Head(s)) \o str_replace(Tail(s), old, new)

\* astype(str): the text of a cell; a missing value becomes the text "nan"
astype_str(c) == IF c.t = "str" THEN c.s ELSE "nan"

\* position of the first "." of s, or 0
PointAt(s) ==
    IF \E i \in 1..Len(s) : SubSeq(s, i, i) = "."
    THEN CHOOSE i \in 1..Len(s) :
            /\ SubSeq(s, i, i) = "."
            /\ \A j \in 1..(i - 1) : SubSeq(s, j, j) # "."
    ELSE 0

\* pd.to_numeric(errors="coerce") on one text: digits, optionally a point and
\* more digits; anything else (the empty text, "nan", letters, a second point)
\* is coerced to NaN.  The value is in tenths.
to_numeric(s) ==
    LET p     == PointAt(s)
        whole == IF p = 0 THEN s ELSE SubSeq(s, 1, p - 1)
        frac  == IF p = 0 THEN "" ELSE SubSeq(s, p + 1, Len(s))
    IN  IF Len(whole) > 0 /\ AllDigits(whole) /\ AllDigits(frac)
        THEN Float(10 * ToInt(whole)
                   + (IF Len(frac) = 0 THEN 0 ELSE DigitVal(SubSeq(frac, 1, 1))))
        ELSE NaN

(***************************************************************************)
(* Dates                                                                   *)
(***************************************************************************)
IsLeap(y) == y % 4 = 0 /\ (y % 100 # 0 \/ y % 400 = 0)

DaysInMonth(y, m) ==
    IF m = 2 THEN (IF IsLeap(y) THEN 29 ELSE 28)
    ELSE IF m \in {4, 6, 9, 11} THEN 30 ELSE 31

RECURSIVE DaysBeforeMonth(_, _)
DaysBeforeMonth(y, m) ==
    IF m = 1 THEN 0 ELSE DaysBeforeMonth(y, m - 1) + DaysInMonth(y, m - 1)

\* datetime.date(y, m, d).toordinal()
toordinal(y, m, d) ==
    LET p == y - 1
    IN  p * 365 + (p \div 4) - (p \div 100) + (p \div 400) + DaysBeforeMonth(y, m) + d

\* pd.to_datetime(errors="coerce") on one text of the layout YYYY-MM-DD HH:MM;
\* any other text is coerced to NaT
to_datetime(s) ==
    IF /\ Len(s) = 16
       /\ AllDigits(SubSeq(s, 1, 4)) /\ SubSeq(s, 5, 5) = "-"
       /\ AllDigits(SubSeq(s, 6, 7)) /\ SubSeq(s, 8, 8) = "-"
       /\ AllDigits(SubSeq(s, 9, 10)) /\ SubSeq(s, 11, 11) = " "
       /\ AllDigits(SubSeq(s, 12, 13)) /\ SubSeq(s, 14, 14) = ":"
       /\ AllDigits(SubSeq(s, 15, 16))
    THEN LET y  == ToInt(SubSeq(s, 1, 4))
             m  == ToInt(SubSeq(s, 6, 7))
             d  == ToInt(SubSeq(s, 9, 10))
             hh == ToInt(SubSeq(s, 12, 13))
             mi == ToInt(SubSeq(s, 15, 16))
         IN  IF /\ y >= 1 /\ m \in 1..12 /\ d >= 1
                /\ hh \in 0..23 /\ mi \in 0..59
                /\ d <= DaysInMonth(y, m)
             THEN Timestamp(toordinal(y, m, d), hh)
             ELSE NaT
    ELSE NaT

(***************************************************************************)
(* Frames: the columns in order and the rows, each row a function from the *)
(* column names to cells                                                   *)
(***************************************************************************)
IntCell(n) == [t |-> "int", s |-> "", v |-> n, h |-> 0]

Date(ord) == [t |-> "date", s |-> "", v |-> ord, h |-> 0]

EmptyFrame == [columns |-> <<>>, rows |-> <<>>]

Range(seq) == {seq[i] : i \in 1..Len(seq)}

\* df[col] = values: the column is replaced, or appended
Assign(frame, col, values) ==
    [columns |-> IF col \in Range(frame.columns) THEN frame.columns
                 ELSE Append(frame.columns, col),
     rows    |-> [i \in 1..Len(frame.rows) |->
                    [c \in DOMAIN frame.rows[i] \cup {col} |->
                        IF c = col THEN values[i] ELSE frame.rows[i][c]]]]

RECURSIVE SelectRows(_, _)
SelectRows(rows, mask) ==
    IF rows = <<>> THEN <<>>
    ELSE (IF Head(mask) THEN <<Head(rows)>> ELSE <<>>)
            \o SelectRows(Tail(rows), Tail(mask))

\* df[mask] for a boolean mask with one entry per row: a new frame holding the
\* rows whose entry is true, in their order
Select(frame, mask) ==
    [columns |-> frame.columns, rows |-> SelectRows(frame.rows, mask)]

\* a mutant of frame_empty: the check that never finds the frame empty
frame_empty_never(frame) == FALSE

\* DataFrame.empty
frame_empty(frame) == Len(frame.rows) = 0

(***************************************************************************)
(* The source file and the loader                                          *)
(***************************************************************************)
CSV_PATH == "qualite-de-lair-mesuree-dans-la-station-chatelet-rer-a0.csv"

RawColumns == <<"date/heure", "PM10", "TEMP", "HUMI">>

\* one data line of the file: four ";"-separated text fields
Line(ts, pm10, temp, humi) == <<ts, pm10, temp, humi>>

\* pd.read_csv(csv_path, sep=";"): one row per line, an empty field is read
\* as a missing value, no other conversion
read_csv(lines) ==
    [columns |-> RawColumns,
     rows    |-> [i \in 1..Len(lines) |->
                    [c \in Range(RawColumns) |->
                        LET k    == CHOOSE j \in 1..4 : RawColumns[j] = c
                            text == lines[i][k]
                        IN  IF text = "" THEN NaN ELSE Str(text)]]]

\* a mutant of file_readable: a missing file is read as a file without lines
file_readable_always(file) == TRUE

file_readable(file) == file.exists

\* a mutant of cache_hit: the loader without its cache
cache_hit_never(store, path) == FALSE

\* st.cache_data: an entry exists for these arguments
cache_hit(store, path) == path \in DOMAIN store

(***************************************************************************)
(* prepare_data                                                            *)
(***************************************************************************)
\* a mutant of copy: the same object under a second name
copy_alias(ref, fresh) == ref

\* DataFrame.copy(): a new object, not the object ref names
copy(ref, fresh) == fresh

NumericColumns == <<"PM10", "TEMP", "HUMI">>

convert_numeric(cell) == to_numeric(str_replace(astype_str(cell), ",", "."))

RECURSIVE convert_columns(_, _)
convert_columns(frame, cols) ==
    IF cols = <<>> THEN frame
    ELSE LET col    == Head(cols)
             values == [i \in 1..Len(frame.rows) |-> convert_numeric(frame.rows[i][col])]
         IN  convert_columns(Assign(frame, col, values), Tail(cols))

parse_datetime(cell) == IF cell.t = "str" THEN to_datetime(cell.s) ELSE NaT

\* the in-place steps of prepare_data before dropna
convert(frame) ==
    Assign(convert_columns(frame, NumericColumns), "date_heure",
           [i \in 1..Len(frame.rows) |-> parse_datetime(frame.rows[i]["date/heure"])])

\* a mutant of dropna_subset: dropna() over every parsed column
dropna_subset_all == {"date_heure", "PM10", "TEMP", "HUMI"}

dropna_subset == {"date_heure", "PM10"}

dropna(frame, subset) ==
    Select(frame, [i \in 1..Len(frame.rows) |-> \A c \in subset : ~isna(frame.rows[i][c])])

weekday_map == <<"Lundi", "Mardi", "Mercredi", "Jeudi", "Vendredi", "Samedi", "Dimanche">>

\* datetime.weekday(): Monday is 0
weekday(ord) == (ord + 6) % 7

\* a mutant of tranche_horaire: the upper ends of the peak ranges excluded
tranche_horaire_exclusive(h) ==
    IF (7 <= h /\ h < 9) \/ (17 <= h /\ h < 19) THEN "Heures de pointe"
    ELSE IF 10 <= h /\ h <= 16 THEN "Journée"
    ELSE "Nuit / Soirée"

tranche_horaire(h) ==
    IF (7 <= h /\ h <= 9) \/ (17 <= h /\ h <= 19) THEN "Heures de pointe"
    ELSE IF 10 <= h /\ h <= 16 THEN "Journée"
    ELSE "Nuit / Soirée"

\* the derived columns, added to the frame dropna returned
derive(frame) ==
    LET n  == Len(frame.rows)
        f1 == Assign(frame, "date",
                     [i \in 1..n |-> Date(frame.rows[i]["date_heure"].v)])
        f2 == Assign(f1, "heure",
                     [i \in 1..n |-> IntCell(f1.rows[i]["date_heure"].h)])
        f3 == Assign(f2, "weekday",
                     [i \in 1..n |-> IntCell(weekday(f2.rows[i]["date_heure"].v))])
        f4 == Assign(f3, "jour_semaine",
                     [i \in 1..n |-> Str(weekday_map[f3.rows[i]["weekday"].v + 1])])
    IN  Assign(f4, "tranche_horaire",
               [i \in 1..n |-> Str(tranche_horaire(f4.rows[i]["heure"].v))])

prepare_data(frame) == derive(dropna(convert(frame), dropna_subset))

(***************************************************************************)
(* Filters, KPIs, table and export                                         *)
(***************************************************************************)
Min(S) == CHOOSE a \in S : \A b \in S : a <= b

Max(S) == CHOOSE a \in S : \A b \in S : a >= b

column_values(frame, col) == {frame.rows[i][col].v : i \in 1..Len(frame.rows)}

\* df["tranche_horaire"].unique()
tranches_disponibles(frame) ==
    {frame.rows[i]["tranche_horaire"].s : i \in 1..Len(frame.rows)}

Variables == {"PM10", "TEMP", "HUMI"}

\* a value of the date-range control: a bare date, or a tuple of dates
DateValue(is_tuple, dates) == [is_tuple |-> is_tuple, dates |-> dates]

NoDateValue == DateValue(FALSE, <<>>)

\* what st.sidebar.date_input can return for a control created with a
\* (min_date, max_date) value: a pair, a 1-tuple while only the first date of
\* the range is picked, and the bare date the script's else branch expects.
\* The dates lie in min_value..max_value; the script does not rely on the
\* first date of a pair being the earlier one.
date_input_values(lo, hi) ==
    {DateValue(TRUE, <<a, b>>) : a \in lo..hi, b \in lo..hi}
        \cup {DateValue(TRUE, <<a>>) : a \in lo..hi}
        \cup {DateValue(FALSE, <<a>>) : a \in lo..hi}

\* isinstance(date_range, tuple) and the unpacking into two names succeeds
unpack_ok(value) == value.is_tuple => Len(value.dates) = 2

period(value) ==
    IF value.is_tuple THEN <<value.dates[1], value.dates[2]>>
    ELSE <<value.dates[1], value.dates[1]>>

\* a mutant of filter_mask: the end of the interval excluded
filter_mask_open_end(frame, debut, fin, selection) ==
    [i \in 1..Len(frame.rows) |->
        /\ frame.rows[i]["date"].v >= debut
        /\ frame.rows[i]["date"].v < fin
        /\ frame.rows[i]["tranche_horaire"].s \in selection]

\* (df["date"] >= date_debut) & (df["date"] <= date_fin)
\*     & (df["tranche_horaire"].isin(tranches_selectionnees))
filter_mask(frame, debut, fin, selection) ==
    [i \in 1..Len(frame.rows) |->
        /\ frame.rows[i]["date"].v >= debut
        /\ frame.rows[i]["date"].v <= fin
        /\ frame.rows[i]["tranche_horaire"].s \in selection]

filter_rows(frame, debut, fin, selection) ==
    Select(frame, filter_mask(frame, debut, fin, selection))

RECURSIVE SumSeq(_)
SumSeq(seq) == IF seq = <<>> THEN 0 ELSE Head(seq) + SumSeq(Tail(seq))

\* Series.mean(): the sum over the count, kept as the pair (tenths, count)
mean(frame, col) ==
    [sum |-> SumSeq([i \in 1..Len(frame.rows) |-> frame.rows[i][col].v]),
     n   |-> Len(frame.rows)]

\* m < k for a mean m and a whole number k of micrograms per cubic metre
MeanLess(m, k) == m.sum < k * 10 * m.n

SEUIL_PM10 == 50

\* a mutant of phrase_pm10: a mean of exactly 20 still counted as good
phrase_pm10_inclusive(m) ==
    IF m.n > 0 /\ m.sum <= 20 * 10 * m.n THEN "Air de bonne qualité"
    ELSE IF MeanLess(m, SEUIL_PM10) THEN "Air moyen"
    ELSE "Dépassement du seuil recommandé"

phrase_pm10(m) ==
    IF MeanLess(m, 20) THEN "Air de bonne qualité"
    ELSE IF MeanLess(m, SEUIL_PM10) THEN "Air moyen"
    ELSE "Dépassement du seuil recommandé"

couleur_pm10(m) ==
    IF MeanLess(m, 20) THEN "#2ecc40"
    ELSE IF MeanLess(m, SEUIL_PM10) THEN "#ffdc00"
    ELSE "#ff4136"

NoKpi == [pm10_moyen |-> [sum |-> 0, n |-> 0], pm10_min |-> 0, pm10_max |-> 0,
          phrase |-> "", couleur |-> "", count |-> 0]

\* the indicators the band and the stop depend on; the median and the
\* standard deviation are displayed only and are not carried
kpis(frame) ==
    [pm10_moyen |-> mean(frame, "PM10"),
     pm10_min   |-> IF frame.rows = <<>> THEN 0 ELSE Min(column_values(frame, "PM10")),
     pm10_max   |-> IF frame.rows = <<>> THEN 0 ELSE Max(column_values(frame, "PM10")),
     phrase     |-> phrase_pm10(mean(frame, "PM10")),
     couleur    |-> couleur_pm10(mean(frame, "PM10")),
     count      |-> Len(frame.rows)]

\* df[[...]]: the named columns only
project(frame, cols) ==
    [columns |-> cols,
     rows    |-> [i \in 1..Len(frame.rows) |->
                    [c \in Range(cols) |-> frame.rows[i][c]]]]

TableColumns == <<"date_heure", "PM10", "TEMP", "HUMI", "jour_semaine", "tranche_horaire">>

Before(a, b) == a.v < b.v \/ (a.v = b.v /\ a.h < b.h)

RECURSIVE InsertSorted(_, _, _)
InsertSorted(rows, row, col) ==
    IF rows = <<>> THEN <<row>>
    ELSE IF Before(row[col], Head(rows)[col]) THEN <<row>> \o rows
    ELSE <<Head(rows)>> \o InsertSorted(Tail(rows), row, col)

RECURSIVE SortRows(_, _)
SortRows(rows, col) ==
    IF rows = <<>> THEN <<>>
    ELSE InsertSorted(SortRows(SubSeq(rows, 1, Len(rows) - 1), col), rows[Len(rows)], col)

\* DataFrame.sort_values(col): a new frame, the rows in ascending order
sort_values(frame, col) == [columns |-> frame.columns, rows |-> SortRows(frame.rows, col)]

NoCsv == [header |-> <<>>, rows |-> <<>>]

\* convert_df: df.to_csv(index=False): a header line of the frame's columns,
\* then one line per row, the cells in the order of the columns
convert_df(frame) ==
    [header |-> frame.columns,
     rows   |-> [i \in 1..Len(frame.rows) |->
                    [k \in 1..Len(frame.columns) |-> frame.rows[i][frame.columns[k]]]]]

(***************************************************************************)
(* The files the model draws the source file from                          *)
(***************************************************************************)
File(lines) == [exists |-> TRUE, lines |-> lines]

Missing == [exists |-> FALSE, lines |-> <<>>]

HeaderOnly == File(<<>>)

\* data lines with good and bad time stamps, good, empty and malformed PM10,
\* and missing or malformed temperature and humidity
LinePool ==
    {Line("2023-01-02 08:00", "10", "12,3", "60,0"),
     Line("2023-01-02 12:00", "30", "", "55"),
     Line("2023-01-03 22:00", "50", "11", ""),
     Line("2023-01-04 17:00", "19,9", "x", "58,5"),
     Line("n/a", "45,5", "12,3", "60,0"),
     Line("2023-01-03 09:00", "", "12,3", "60,0"),
     Line("2023-01-04 03:00", "1,2,3", "9", "70")}

SeqsUpTo(S, n) == UNION {[1..k -> S] : k \in 0..n}

PoolFiles == {File(lines) : lines \in SeqsUpTo(LinePool, MaxRows)}

TwoDigits(n) == Digits[(n \div 10) + 1] \o Digits[(n % 10) + 1]

\* one reading for every hour of every day of the week of 2023-01-02
HourFiles ==
    {File(<<Line("2023-01-" \o TwoDigits(d) \o " " \o TwoDigits(hh) \o ":00",
                 "45,5", "12,3", "60,0")>>) : d \in 2..8, hh \in 0..23}

Files == PoolFiles \cup HourFiles \cup {Missing}

(***************************************************************************)
(* State                                                                   *)
(***************************************************************************)
VARIABLES
    pc,                      \* the section of the script the run is at
    disk,                    \* the file at CSV_PATH
    cache,                   \* st.cache_data's entries of load_raw_data
    reads,                   \* how many times the file was read and parsed
    objs,                    \* the frame objects of the run
    globals,                 \* which object df_raw, df and df_filtered name
    ui,                      \* the elements emitted in this run, in order
    error,                   \* the uncaught exception of this run, or ""
    date_range,
    tranches_selectionnees,
    variable_principale,
    dates,                   \* <<date_debut, date_fin>> once derived
    kpi,
    table,
    csv

vars == <<pc, disk, cache, reads, objs, globals, ui, error, date_range,
          tranches_selectionnees, variable_principale, dates, kpi, table, csv>>

Ids == {"none", "raw", "copy", "df", "sel", "filtered"}

NoObjs == [id \in Ids |-> EmptyFrame]

NoGlobals == [df_raw |-> "none", df |-> "none", df_filtered |-> "none"]

Terminal == {"done", "stopped", "raised"}

run_vars == <<objs, globals, ui, error, date_range, tranches_selectionnees,
              variable_principale, dates, kpi, table, csv>>

FreshRun ==
    /\ pc = "config"
    /\ objs = NoObjs
    /\ globals = NoGlobals
    /\ ui = <<>>
    /\ error = ""
    /\ date_range = NoDateValue
    /\ tranches_selectionnees = {}
    /\ variable_principale = "PM10"
    /\ dates = <<>>
    /\ kpi = NoKpi
    /\ table = EmptyFrame
    /\ csv = NoCsv

Init ==
    /\ FreshRun
    /\ disk \in Files
    /\ cache = <<>>
    /\ reads = 0

Raise(e) ==
    /\ pc' = "raised"
    /\ error' = e

\* st.set_page_config(...) and set_background(), which emits the style block
Config ==
    /\ pc = "config"
    /\ ui' = Append(ui, "style")
    /\ pc' = "load"
    /\ UNCHANGED <<disk, cache, reads, objs, globals, error, date_range,
                   tranches_selectionnees, variable_principale, dates, kpi, table, csv>>

\* df_raw = load_raw_data(CSV_PATH), under @st.cache_data
LoadRawData ==
    /\ pc = "load"
    /\ IF cache_hit(cache, CSV_PATH)
       THEN /\ objs' = [objs EXCEPT !["raw"] = cache[CSV_PATH]]
            /\ globals' = [globals EXCEPT !.df_raw = "raw"]
            /\ pc' = "prepare"
            /\ UNCHANGED <<cache, reads, error>>
       ELSE IF file_readable(disk)
       THEN /\ reads' = reads + 1
            /\ cache' = (CSV_PATH :> read_csv(disk.lines))
            /\ objs' = [objs EXCEPT !["raw"] = read_csv(disk.lines)]
            /\ globals' = [globals EXCEPT !.df_raw = "raw"]
            /\ pc' = "prepare"
            /\ UNCHANGED error
       ELSE /\ Raise("FileNotFoundError")
            /\ UNCHANGED <<cache, reads, objs, globals>>
    /\ UNCHANGED <<disk, ui, date_range, tranches_selectionnees,
                   variable_principale, dates, kpi, table, csv>>

\* df = prepare_data(df_raw)
PrepareData ==
    /\ pc = "prepare"
    /\ LET a     == copy(globals.df_raw, "copy")
           objs1 == [objs EXCEPT ![a] = convert(objs[globals.df_raw])]
       IN  objs' = [objs1 EXCEPT !["df"] = derive(dropna(objs1[a], dropna_subset))]
    /\ globals' = [globals EXCEPT !.df = "df"]
    /\ pc' = "header"
    /\ UNCHANGED <<disk, cache, reads, ui, error, date_range, tranches_selectionnees,
                   variable_principale, dates, kpi, table, csv>>

\* title, caption, introduction, rule and the sidebar's header
Header ==
    /\ pc = "header"
    /\ ui' = ui \o <<"title", "caption", "markdown", "divider", "sidebar.header">>
    /\ pc' = "sidebar"
    /\ UNCHANGED <<disk, cache, reads, objs, globals, error, date_range,
                   tranches_selectionnees, variable_principale, dates, kpi, table, csv>>

\* the three controls of the sidebar.  On a prepared frame without rows
\* min_date and max_date are NaT, which date_input rejects with an exception.
SidebarFilters ==
    /\ pc = "sidebar"
    /\ LET frame == objs[globals.df]
       IN  IF frame.rows = <<>>
           THEN /\ Raise("date_input: NaT")
                /\ UNCHANGED <<ui, date_range, tranches_selectionnees, variable_principale>>
           ELSE \E value \in date_input_values(Min(column_values(frame, "date")),
                                               Max(column_values(frame, "date"))),
                   selection \in SUBSET tranches_disponibles(frame),
                   variable \in Variables :
                    /\ date_range' = value
                    /\ tranches_selectionnees' = selection
                    /\ variable_principale' = variable
                    /\ ui' = ui \o <<"sidebar.date_input", "sidebar.multiselect",
                                     "sidebar.selectbox">>
                    /\ pc' = "filter"
                    /\ UNCHANGED error
    /\ UNCHANGED <<disk, cache, reads, objs, globals, dates, kpi, table, csv>>

\* date_debut, date_fin from date_range; df_filtered; the empty check
ApplyFilters ==
    /\ pc = "filter"
    /\ IF ~unpack_ok(date_range)
       THEN /\ Raise("ValueError: not enough values to unpack")
            /\ UNCHANGED <<objs, globals, ui, dates>>
       ELSE LET p        == period(date_range)
                selected == filter_rows(objs[globals.df], p[1], p[2],
                                        tranches_selectionnees)
                f        == copy("sel", "filtered")
            IN  /\ dates' = p
                /\ objs' = [[objs EXCEPT !["sel"] = selected] EXCEPT ![f] = selected]
                /\ globals' = [globals EXCEPT !.df_filtered = f]
                /\ IF frame_empty(selected)
                   THEN /\ ui' = Append(ui, "warning")
                        /\ pc' = "stopped"
                   ELSE /\ ui' = ui
                        /\ pc' = "kpis"
                /\ UNCHANGED error
    /\ UNCHANGED <<disk, cache, reads, date_range, tranches_selectionnees,
                   variable_principale, kpi, table, csv>>

\* the indicators on PM10 and their display
KPIs ==
    /\ pc = "kpis"
    /\ kpi' = kpis(objs[globals.df_filtered])
    /\ ui' = ui \o <<"subheader", "metric", "markdown", "metric", "metric",
                     "metric", "metric", "metric", "divider">>
    /\ pc' = "charts"
    /\ UNCHANGED <<disk, cache, reads, objs, globals, error, date_range,
                   tranches_selectionnees, variable_principale, dates, table, csv>>

\* the three tabs and the scatter plot; the plot functions sort and group
\* into frames of their own
Visualisations ==
    /\ pc = "charts"
    /\ ui' = ui \o <<"tabs", "plotly_chart", "plotly_chart", "plotly_chart",
                     "expander", "plotly_chart", "divider">>
    /\ pc' = "table"
    /\ UNCHANGED <<disk, cache, reads, objs, globals, error, date_range,
                   tranches_selectionnees, variable_principale, dates, kpi, table, csv>>

\* st.dataframe(df_filtered[[...]].sort_values("date_heure"))
DataTable ==
    /\ pc = "table"
    /\ table' = sort_values(project(objs[globals.df_filtered], TableColumns), "date_heure")
    /\ ui' = ui \o <<"subheader", "dataframe">>
    /\ pc' = "export"
    /\ UNCHANGED <<disk, cache, reads, objs, globals, error, date_range,
                   tranches_selectionnees, variable_principale, dates, kpi, csv>>

\* csv = convert_df(df_filtered) and the download button
Export ==
    /\ pc = "export"
    /\ csv' = convert_df(objs[globals.df_filtered])
    /\ ui' = Append(ui, "download_button")
    /\ pc' = "summary"
    /\ UNCHANGED <<disk, cache, reads, objs, globals, error, date_range,
                   tranches_selectionnees, variable_principale, dates, kpi, table>>

\* the closing expander; the script ends
Summary ==
    /\ pc = "summary"
    /\ ui' = Append(ui, "expander")
    /\ pc' = "done"
    /\ UNCHANGED <<disk, cache, reads, objs, globals, error, date_range,
                   tranches_selectionnees, variable_principale, dates, kpi, table, csv>>

\* an interaction reruns the script from the top; only the cache outlives a run
Rerun ==
    /\ pc \in Terminal
    /\ pc' = "config"
    /\ objs' = NoObjs
    /\ globals' = NoGlobals
    /\ ui' = <<>>
    /\ error' = ""
    /\ date_range' = NoDateValue
    /\ tranches_selectionnees' = {}
    /\ variable_principale' = "PM10"
    /\ dates' = <<>>
    /\ kpi' = NoKpi
    /\ table' = EmptyFrame
    /\ csv' = NoCsv
    /\ UNCHANGED <<disk, cache, reads>>

\* between two runs the file is deleted, or rewritten with its header only
FileChange ==
    /\ pc \in Terminal
    /\ disk' \in {Missing, HeaderOnly} \ {disk}
    /\ UNCHANGED <<pc, cache, reads>>
    /\ UNCHANGED run_vars

Next ==
    \/ Config
    \/ LoadRawData
    \/ PrepareData
    \/ Header
    \/ SidebarFilters
    \/ ApplyFilters
    \/ KPIs
    \/ Visualisations
    \/ DataTable
    \/ Export
    \/ Summary
    \/ Rerun
    \/ FileChange

Spec == Init /\ [][Next]_vars
(***************************************************************************)
(* Properties                                                              *)
(***************************************************************************)
Prepared == globals.df # "none"

Filtered == globals.df_filtered # "none"

RawRows == objs[globals.df_raw].rows

BaseRows == objs[globals.df].rows

FilteredRows == objs[globals.df_filtered].rows

Count(rows, r) == Cardinality({i \in 1..Len(rows) : rows[i] = r})

\* nothing of the indicators, charts, table or export has been computed or shown
NoOutput ==
    /\ kpi = NoKpi
    /\ table = EmptyFrame
    /\ csv = NoCsv
    /\ Range(ui) \cap {"metric", "plotly_chart", "dataframe", "download_button"} = {}

\* C1: the time bucket of every prepared row is the one the rule gives for its
\* hour: the hour is in 0..23, hours 7..9 and 17..19 give 'Heures de pointe',
\* hours 10..16 give 'Journée', hours 0..6 and 20..23 give 'Nuit / Soirée',
\* and no hour has two buckets.
C1_TimeBucketPartition ==
    Prepared =>
        \A i \in 1..Len(BaseRows) :
            LET h == BaseRows[i]["heure"].v
                b == BaseRows[i]["tranche_horaire"].s
            IN  /\ h \in 0..23
                /\ b = "Heures de pointe" <=> h \in (7..9) \cup (17..19)
                /\ b = "Journée" <=> h \in 10..16
                /\ b = "Nuit / Soirée" <=> h \in (0..6) \cup (20..23)

\* C1 witness: a prepared row at 19h, the last hour of the evening peak
C1_Witness ==
    /\ Prepared
    /\ \E i \in 1..Len(BaseRows) :
            /\ BaseRows[i]["heure"].v = 19
            /\ BaseRows[i]["tranche_horaire"].s = "Heures de pointe"

\* the raw row has a parseable time stamp and a parseable PM10
Parseable(row) ==
    /\ ~isna(parse_datetime(row["date/heure"]))
    /\ ~isna(convert_numeric(row["PM10"]))

\* the raw rows that parse, in their order
ParseableRows == SelectSeq(RawRows, Parseable)

\* C2: prepare_data keeps exactly the raw rows whose time stamp and PM10 both
\* parse: every prepared row has a time stamp and a PM10, and the prepared
\* rows are the parseable raw rows, one for one and in order, whatever their
\* temperature and humidity.  Stated where prepare_data returns.
C2_DropIffNull ==
    pc = "header" =>
        /\ \A j \in 1..Len(BaseRows) :
                /\ ~isna(BaseRows[j]["date_heure"])
                /\ ~isna(BaseRows[j]["PM10"])
        /\ Len(BaseRows) = Len(ParseableRows)
        /\ \A j \in 1..Len(BaseRows) :
                /\ BaseRows[j]["date/heure"] = ParseableRows[j]["date/heure"]
                /\ BaseRows[j]["PM10"] = convert_numeric(ParseableRows[j]["PM10"])
                /\ BaseRows[j]["TEMP"] = convert_numeric(ParseableRows[j]["TEMP"])
                /\ BaseRows[j]["HUMI"] = convert_numeric(ParseableRows[j]["HUMI"])

\* C2 witness: a raw row is dropped and a row without temperature is kept
C2_Witness ==
    /\ pc = "header"
    /\ Len(BaseRows) < Len(RawRows)
    /\ \E j \in 1..Len(BaseRows) : isna(BaseRows[j]["TEMP"])

\* the row satisfies the selection of this run
InSelection(r) ==
    /\ dates[1] <= r["date"].v
    /\ r["date"].v <= dates[2]
    /\ r["tranche_horaire"].s \in tranches_selectionnees

\* C3: the filtered frame holds exactly the prepared rows whose date lies in
\* [date_debut, date_fin] and whose bucket is selected, each as many times as
\* the prepared frame holds it; without a bucket, or with date_debut after
\* date_fin, it is empty and no exception is raised; with the whole period
\* and every bucket it is the prepared frame.
C3_FilterExact ==
    Filtered =>
        /\ error = ""
        /\ \A r \in Range(BaseRows) \cup Range(FilteredRows) :
                Count(FilteredRows, r) = IF InSelection(r) THEN Count(BaseRows, r) ELSE 0
        /\ tranches_selectionnees = {} => FilteredRows = <<>>
        /\ dates[1] > dates[2] => FilteredRows = <<>>
        /\ ( /\ dates[1] = Min(column_values(objs[globals.df], "date"))
             /\ dates[2] = Max(column_values(objs[globals.df], "date"))
             /\ tranches_selectionnees = tranches_disponibles(objs[globals.df]) )
            => FilteredRows = BaseRows

\* C3 witness: a selection that keeps a row of the last day of the interval
\* and leaves another row out
C3_Witness ==
    /\ Filtered
    /\ \E i \in 1..Len(FilteredRows) : FilteredRows[i]["date"].v = dates[2]
    /\ Len(FilteredRows) < Len(BaseRows)

\* C4: a run whose selection matches no row has stopped on the warning with no
\* indicator, chart, table or export computed or shown; whatever of these
\* exists was computed on a filtered frame that has rows.
C4_NoDataStops ==
    /\ (Filtered /\ FilteredRows = <<>>) =>
            /\ pc = "stopped"
            /\ ui[Len(ui)] = "warning"
            /\ NoOutput
    /\ ~NoOutput => (Filtered /\ FilteredRows # <<>>)

\* C4 witness: a run stopped on the warning although buckets were selected
C4_Witness ==
    /\ pc = "stopped"
    /\ tranches_selectionnees # {}
    /\ FilteredRows = <<>>

\* C5 as claimed: when the load fails on a missing file the run has halted on
\* the exception and no element at all has been emitted.
C5_NoElementAtAll ==
    error = "FileNotFoundError" => (pc = "raised" /\ ui = <<>>)

\* C5 amended: a load that finds neither a cache entry nor a file raises, the
\* run halts on the exception, and the only element of the run is the style
\* block set_background() emitted before the load: no title, control,
\* indicator, chart, table or export before the load or after it.
C5_OnlyStyleBlock ==
    /\ [][(pc = "load" /\ CSV_PATH \notin DOMAIN cache /\ ~disk.exists)
            => (pc' = "raised" /\ error' = "FileNotFoundError" /\ ui' = <<"style">>)]_vars
    /\ [](error = "FileNotFoundError" => (pc = "raised" /\ ui = <<"style">> /\ NoOutput))

\* C5 witness: a run halted on the missing file
C5_Witness ==
    /\ pc = "raised"
    /\ error = "FileNotFoundError"
    /\ ~disk.exists

\* C6: once the path has a cache entry the entry never changes and the file is
\* never read again, and every later load returns the frame of the entry.
C6_LoadCached ==
    [][(CSV_PATH \in DOMAIN cache) =>
        ( /\ cache' = cache
          /\ reads' = reads
          /\ pc = "load" =>
                (pc' = "prepare" /\ objs'[globals'.df_raw] = cache[CSV_PATH]) )]_vars

\* C6 witness: a later run got the cached frame after the file was deleted
C6_Witness ==
    /\ pc = "prepare"
    /\ ~disk.exists
    /\ RawRows # <<>>
    /\ objs[globals.df_raw] = cache[CSV_PATH]

PM10Sum == SumSeq([i \in 1..Len(FilteredRows) |-> FilteredRows[i]["PM10"].v])

C8_ExportColumns ==
    csv # NoCsv =>
        /\ csv.header = TableColumns
        /\ Len(csv.rows) = Len(FilteredRows)
        /\ \A i \in 1..Len(csv.rows) : \A k \in 1..Len(csv.header) :
                csv.rows[i][k] = FilteredRows[i][csv.header[k]]

\* C9: prepare_data leaves the frame df_raw names as it was, every later
\* section leaves the frame df names as it was, and the filtered frame of a
\* run is the filter of this run's selection over the preparation of the
\* loaded dataset, whatever the earlier runs selected.
C9_BaseImmutable ==
    /\ [][(pc = "prepare" => objs'[globals.df_raw] = objs[globals.df_raw])
          /\ (pc \in {"sidebar", "filter", "kpis", "charts", "table", "export", "summary"}
                => objs'[globals.df] = objs[globals.df])]_vars
    /\ [](Filtered =>
            objs[globals.df_filtered] =
                filter_rows(prepare_data(cache[CSV_PATH]), dates[1], dates[2],
                            tranches_selectionnees))

\* C9 witness: a complete run after the run that loaded the file
C9_Witness ==
    /\ pc = "done"
    /\ ~disk.exists
    /\ Len(FilteredRows) < Len(BaseRows)

\* C10 as claimed: whatever value the date-range control delivered, the run
\* does not raise: it goes on to the filter and ends stopped on the warning
\* or with the whole dashboard.
C10_NoRaiseOnDateRange ==
    date_range # NoDateValue => pc # "raised"
====
